---- MODULE Spec2Model ----
(***************************************************************************)
(* A model of the RSS feed automation of src/main.py: one batch run loads  *)
(* the persisted run state, fetches and normalises every configured feed,  *)
(* filters the items that are new, writes the file sinks and saves the run *)
(* state.                                                                  *)
(*                                                                         *)
(* How the file is read.  As written the file does not compile: the lines  *)
(* 215-240 and 242-285 have lost their indentation.  The model takes the   *)
(* one block structure in which every function is defined: lines 215-240   *)
(* are the tail of save_items_to_files (they use its parameter `items` and *)
(* its local html_content), so index.html is its fourth write; lines       *)
(* 242-283 are the body of main.  Line 284 tests `name == "main"`, which   *)
(* raises NameError and calls nothing: a run is main called once in a      *)
(* fresh process by whatever schedules the job, not the script's own       *)
(* entry.                                                                  *)
(***************************************************************************)
EXTENDS Integers, Sequences, FiniteSets, TLC

(***************************************************************************)
(* Bounds of the model.                                                    *)
(***************************************************************************)
\* The wall clock ranges over 1..MaxTime, publication dates over datetime.min
\* and 1..MaxTime.
MaxTime == 2
\* Total number of entries over all feeds in the feed-processing runs.
MaxEntries == 3
\* Number of entries of the feed in the multi-run specification.
MaxItems == 2
\* Longest feed of the bulk specification.
BulkLen == 11

(***************************************************************************)
(* Values.                                                                 *)
(***************************************************************************)
\* Python's None for a datetime (pub_date = None, last_run_time = None).
NoneTime == -1
\* datetime.min, the least datetime: the sort key of an item without
\* pub_date, and itself a date an entry can carry (0001-01-01T00:00:00).
DatetimeMin == 0
\* timedelta(days=1), in clock ticks.
Day == 1
\* An attribute a feed entry does not have: reading it raises AttributeError.
Missing == "<missing>"
\* entry.published_parsed present but no date (None, or fields out of range):
\* datetime(*entry.published_parsed[:6]) raises TypeError or ValueError.
BadDate == -2

\* What datetime.now() returns.
Times == 1..MaxTime
\* What datetime(*entry.published_parsed[:6]) returns: any datetime, the
\* least one included.
PubTimes == {DatetimeMin} \cup Times
Titles == {"A", "B"}
Links == {"x"}
\* The feeds list, in its order (two feeds stand for the four URLs).
FeedList == <<1, 2>>
Feeds == {FeedList[i] : i \in 1..Len(FeedList)}
\* The file sinks in the order save_items_to_files writes them.
SinkOrder == <<"new_items.json", "new_items.csv", "all_items.json", "index.html">>
Sinks == {SinkOrder[i] : i \in 1..Len(SinkOrder)}

VARIABLES
    feedContent,        \* what each feed URL returns: [error, entries]
    stateFile,          \* data/last_run_info.json: [kind, last_run, last_item_ids]
    pc,                 \* position of the process
    current_time,       \* main: current_time
    last_run_time,      \* main: last_run_time (the cutoff, after the default)
    last_item_ids,      \* main: last_item_ids
    fetched,            \* the feed contents this run parsed
    all_items,          \* main: all_items
    filtered_new_items, \* main: filtered_new_items
    new_item_ids,       \* main: new_item_ids
    attempted,          \* file sinks whose write this run attempted
    written,            \* file sinks this run wrote
    startFile,          \* the state file as it was when this run started
    prevRun,            \* "none", or how the run that saved stateFile over the
                        \* current feed contents stood: "sane" / "skewed"
    rerun               \* prevRun as it was when this run started

vars == <<feedContent, stateFile, pc, current_time, last_run_time, last_item_ids,
          fetched, all_items, filtered_new_items, new_item_ids, attempted,
          written, startFile, prevRun, rerun>>

(***************************************************************************)
(* Helpers on sequences.                                                   *)
(***************************************************************************)
Range(s) == {s[i] : i \in 1..Len(s)}

Min(S) == CHOOSE x \in S : \A y \in S : x <= y

SeqsOfLen(S, n) == [1..n -> S]

RECURSIVE Flatten(_)
Flatten(ss) == IF ss = <<>> THEN <<>> ELSE Head(ss) \o Flatten(Tail(ss))

(***************************************************************************)
(* Feed entries and items.                                                 *)
(***************************************************************************)
\* Entries feedparser hands over with title and link; published may be absent.
WellFormed == [title : Titles, link : Links, published : {NoneTime} \cup PubTimes]

\* Entries lacking the title or the link, or holding a date that is none.
Malformed == {[title |-> Missing, link |-> "x", published |-> 1],
              [title |-> "A", link |-> Missing, published |-> 1],
              [title |-> "A", link |-> "x", published |-> BadDate]}

\* hashlib.md5(f"{entry.title}:{entry.link}".encode()).hexdigest(): the digest
\* is modelled as the string it digests (no collisions).
ItemHash(title, link) == title \o ":" \o link

\* Processing the entry raises: reading entry.title or entry.link of an
\* entry without it (line 73), or building the datetime of line 78 from a
\* published_parsed that holds no date.
EntryRaises(entry) ==
    \/ entry.title = Missing
    \/ entry.link = Missing
    \/ entry.published = BadDate

\* RSSItem(title=..., link=..., pub_date=..., source=..., item_id=...)
RSSItem(entry, source) ==
    [title    |-> entry.title,
     link     |-> entry.link,
     pub_date |-> entry.published,
     source   |-> source,
     item_id  |-> ItemHash(entry.title, entry.link)]

(***************************************************************************)
(* fetch_and_process_feeds.                                                *)
(***************************************************************************)
\* The body of the try block for one feed: feedparser.parse, then one item per
\* entry in document order.  An exception (parse raising, or an entry that
\* raises) leaves the loop over the entries; the items
\* appended before it stay in all_items.
ProcessFeed(feed, source) ==
    IF feed.error THEN <<>>
    ELSE LET raising == {i \in 1..Len(feed.entries) : EntryRaises(feed.entries[i])}
             n == IF raising = {} THEN Len(feed.entries) ELSE Min(raising) - 1
         IN  [i \in 1..n |-> RSSItem(feed.entries[i], source)]

\* Whether processing the feed raises (and the except clause reports it).
FeedFails(feed) ==
    feed.error \/ \E i \in 1..Len(feed.entries) : EntryRaises(feed.entries[i])

\* A slip that puts the try around the loop over the feeds: the first feed
\* that raises ends the loop.
AppendUntilFailure(content) ==
    LET failing == {i \in 1..Len(FeedList) : content[FeedList[i]].error
                       \/ \E k \in 1..Len(content[FeedList[i]].entries) :
                              EntryRaises(content[FeedList[i]].entries[k])}
        n == IF failing = {} THEN Len(FeedList) ELSE Min(failing)
    IN  Flatten([i \in 1..n |-> ProcessFeed(content[FeedList[i]], FeedList[i])])

\* all_items before the sort: the items of every feed, in feed list order.
AppendAllFeeds(content) ==
    Flatten([i \in 1..Len(FeedList) |-> ProcessFeed(content[FeedList[i]], FeedList[i])])

\* key=lambda x: x.pub_date if x.pub_date else datetime.min
SortKey(item) == IF item.pub_date = NoneTime THEN DatetimeMin ELSE item.pub_date

\* A slip in the sort: x goes in front of the items with its own key.
InsertTiesReversed(sorted, x) ==
    LET k == Cardinality({i \in 1..Len(sorted) : SortKey(sorted[i]) > SortKey(x)})
    IN  SubSeq(sorted, 1, k) \o <<x>> \o SubSeq(sorted, k + 1, Len(sorted))

\* One step of the stable sort with reverse=True: x goes behind every item
\* whose key is greater than or equal to its own.
InsertNewestFirst(sorted, x) ==
    LET k == Cardinality({i \in 1..Len(sorted) : SortKey(sorted[i]) >= SortKey(x)})
    IN  SubSeq(sorted, 1, k) \o <<x>> \o SubSeq(sorted, k + 1, Len(sorted))

RECURSIVE SortNewestFirst(_)
\* all_items.sort(key=..., reverse=True)
SortNewestFirst(items) ==
    IF items = <<>> THEN <<>>
    ELSE InsertNewestFirst(SortNewestFirst(SubSeq(items, 1, Len(items) - 1)),
                           items[Len(items)])

FetchAndProcessFeeds(content) == SortNewestFirst(AppendAllFeeds(content))

(***************************************************************************)
(* get_new_items, load_last_run_info and the filtering of main.            *)
(***************************************************************************)
\* A slip that keeps the items published at the cutoff.
PublishedAtOrAfter(item, since) == item.pub_date # NoneTime /\ item.pub_date >= since

\* if not item.pub_date: continue;  if item.pub_date > since: append
PublishedAfter(item, since) == item.pub_date # NoneTime /\ item.pub_date > since

GetNewItems(items, since) ==
    LET Test(item) == PublishedAfter(item, since) IN SelectSeq(items, Test)

\* The state file: absent, unparseable, or a saved record.
AbsentFile == [kind |-> "absent", last_run |-> NoneTime, last_item_ids |-> <<>>]
CorruptFile == [kind |-> "corrupt", last_run |-> NoneTime, last_item_ids |-> <<>>]
SavedFile(last_run, ids) == [kind |-> "valid", last_run |-> last_run, last_item_ids |-> ids]

\* load_last_run_info: (None, []) when the file does not exist or when
\* reading it raises, else (last_run, last_item_ids).
LoadLastRunInfo(file) ==
    CASE file.kind = "absent"  -> [last_run |-> NoneTime, last_item_ids |-> <<>>]
      [] file.kind = "corrupt" -> [last_run |-> NoneTime, last_item_ids |-> <<>>]
      [] OTHER -> [last_run |-> file.last_run, last_item_ids |-> file.last_item_ids]

\* A slip that leaves the cutoff unset.
CutoffNoDefault(loaded_last_run, now) == loaded_last_run

\* if not last_run_time: last_run_time = current_time - timedelta(days=1)
Cutoff(loaded_last_run, now) ==
    IF loaded_last_run = NoneTime THEN now - Day ELSE loaded_last_run

\* A slip that skips the filter by id.
FilterNothing(new_items, ids) == new_items

\* [item for item in new_items if item.item_id not in last_item_ids]
FilterProcessed(new_items, ids) ==
    LET Test(item) == item.item_id \notin Range(ids) IN SelectSeq(new_items, Test)

\* The ids of the items, in their order.
ItemIds(items) == [i \in 1..Len(items) |-> items[i].item_id]

\* A slip that tracks no id of this run.
TrackIdsForgetting(ids, items) == [last_item_ids |-> ids, new_item_ids |-> ids]

\* A slip that appends to the loaded list itself (no copy).
TrackIdsAliased(ids, items) ==
    [last_item_ids |-> ids \o ItemIds(items), new_item_ids |-> ids \o ItemIds(items)]

\* new_item_ids = last_item_ids.copy(); then one append per filtered item.
\* The appends go to the copy: last_item_ids keeps the loaded list.
TrackIds(ids, items) ==
    [last_item_ids |-> ids, new_item_ids |-> ids \o ItemIds(items)]

(***************************************************************************)
(* save_items_to_files and save_last_run_info.                             *)
(***************************************************************************)
\* The writes save_items_to_files makes, in order: new_items.csv only
\* `if items`, all_items.json only `if all_items`, index.html always.
PlannedSinks(items, all) ==
    LET Test(s) == /\ (s = "new_items.csv" => items # <<>>)
                   /\ (s = "all_items.json" => all # <<>>)
    IN  SelectSeq(SinkOrder, Test)

\* open('data/last_run_info.json', 'w') truncates the file in place: until
\* json.dump has run and the file is closed a reader finds no JSON document.
TruncatedFile == CorruptFile

(***************************************************************************)
(* Inputs.                                                                 *)
(***************************************************************************)
Entries == WellFormed \cup Malformed

OkFeed(entries) == [error |-> FALSE, entries |-> entries]
\* A feed whose feedparser.parse call raises.
ErrorFeed == [error |-> TRUE, entries |-> <<>>]

TotalEntries(content) == Len(content[1].entries) + Len(content[2].entries)

\* The feed contents with the entries p1 of the first feed and p2 of the
\* second, where the feeds in F fail to parse instead.
Content(p1, p2, F) ==
    [f \in Feeds |-> IF f \in F THEN ErrorFeed ELSE OkFeed(IF f = 1 THEN p1 ELSE p2)]

\* The lengths of two feeds with at most n entries in all.
Splits(n) == {l \in (0..n) \X (0..n) : l[1] + l[2] <= n}

\* Entry i of a long feed.
BulkEntry(i) ==
    [title |-> IF i % 2 = 0 THEN "A" ELSE "B", link |-> "x", published |-> 1 + (i % MaxTime)]

BulkFeed(n) == [i \in 1..n |-> BulkEntry(i)]

\* State files a first run may find.
InitialStateFiles ==
    {AbsentFile, CorruptFile}
        \cup {SavedFile(t, ids) : t \in Times, ids \in {<<>>, <<ItemHash("A", "x")>>}}

\* State files of the ordering runs: none, or one a run saved with an id.
OrderStateFiles ==
    {AbsentFile} \cup {SavedFile(t, <<ItemHash("A", "x")>>) : t \in Times}

(***************************************************************************)
(* The state machine.                                                      *)
(***************************************************************************)
NoLocals ==
    /\ current_time = NoneTime
    /\ last_run_time = NoneTime
    /\ last_item_ids = <<>>
    /\ fetched = [f \in Feeds |-> OkFeed(<<>>)]
    /\ all_items = <<>>
    /\ filtered_new_items = <<>>
    /\ new_item_ids = <<>>
    /\ attempted = {}
    /\ written = {}
    /\ startFile = AbsentFile
    /\ rerun = "none"

StartsWith(content, file) ==
    /\ feedContent = content
    /\ stateFile = file
    /\ pc = "idle"
    /\ prevRun = "none"
    /\ NoLocals

\* Any well-formed entries in the first feed, none in the second; any state file.
Init ==
    \E n \in 0..MaxItems, file \in InitialStateFiles :
        \E p1 \in SeqsOfLen(WellFormed, n) :
            StartsWith(Content(p1, <<>>, {}), file)

\* Any feed contents, malformed entries and failing feeds included; no state file.
InitFetch ==
    \E l \in Splits(MaxEntries), F \in SUBSET Feeds :
        /\ \A f \in F : l[f] = 0
        /\ \E p1 \in SeqsOfLen(Entries, l[1]), p2 \in SeqsOfLen(Entries, l[2]) :
               StartsWith(Content(p1, p2, F), AbsentFile)

\* Any well-formed entries in the two feeds, dated datetime.min or later or
\* not dated; no state file, or a saved one that holds an id.
InitOrder ==
    \E l \in Splits(MaxEntries), file \in OrderStateFiles :
        \E p1 \in SeqsOfLen(WellFormed, l[1]), p2 \in SeqsOfLen(WellFormed, l[2]) :
            StartsWith(Content(p1, p2, {}), file)

\* Long feeds; no state file.
InitBulk ==
    \E n1 \in 0..BulkLen, n2 \in 0..BulkLen :
        StartsWith(Content(BulkFeed(n1), BulkFeed(n2), {}), AbsentFile)

\* main, lines 246-270: read the clock, load the run state, default the
\* cutoff, fetch and sort, filter by date and by id, collect the ids.
Main(now) ==
    /\ pc = "idle"
    /\ LET loaded == LoadLastRunInfo(stateFile)
           cutoff == Cutoff(loaded.last_run, now)
           items  == FetchAndProcessFeeds(feedContent)
           new    == FilterProcessed(GetNewItems(items, cutoff), loaded.last_item_ids)
           ids    == TrackIds(loaded.last_item_ids, new)
       IN  /\ current_time' = now
           /\ last_run_time' = cutoff
           /\ last_item_ids' = ids.last_item_ids
           /\ all_items' = items
           /\ filtered_new_items' = new
           /\ new_item_ids' = ids.new_item_ids
    /\ fetched' = feedContent
    /\ startFile' = stateFile
    /\ rerun' = prevRun
    /\ pc' = "files"
    /\ UNCHANGED <<feedContent, stateFile, attempted, written, prevRun>>

\* main, line 273, save_items_to_files(filtered_new_items, all_items): the
\* next of its writes (open, dump or write rows, close).  No write is
\* guarded: one that raises leaves save_items_to_files and main.  After the
\* last write the function returns.
WriteSink(raises) ==
    /\ pc = "files"
    /\ LET planned == PlannedSinks(filtered_new_items, all_items)
           k == Cardinality(attempted) + 1
       IN  /\ k <= Len(planned)
           /\ attempted' = attempted \cup {planned[k]}
           /\ written' = IF raises THEN written ELSE written \cup {planned[k]}
           /\ pc' = IF raises THEN "crashed"
                    ELSE IF k = Len(planned) THEN "save" ELSE "files"
    /\ UNCHANGED <<feedContent, stateFile, current_time, last_run_time, last_item_ids,
                   fetched, all_items, filtered_new_items, new_item_ids, startFile,
                   prevRun, rerun>>

\* save_last_run_info, line 136: open(..., 'w').  The open is not guarded:
\* when it raises the file is untouched and the exception leaves main.
SaveOpen(raises) ==
    /\ pc = "save"
    /\ stateFile' = IF raises THEN stateFile ELSE TruncatedFile
    /\ prevRun' = IF raises THEN prevRun ELSE "none"
    /\ pc' = IF raises THEN "crashed" ELSE "dump"
    /\ UNCHANGED <<feedContent, current_time, last_run_time, last_item_ids, fetched,
                   all_items, filtered_new_items, new_item_ids, attempted, written,
                   startFile, rerun>>

\* save_last_run_info, line 137: json.dump and the close of the file.  When
\* the dump or the flush raises the file stays without a JSON document and
\* the exception leaves main.
SaveDump(raises) ==
    /\ pc = "dump"
    /\ stateFile' = IF raises THEN TruncatedFile
                   ELSE SavedFile(current_time, new_item_ids)
    /\ prevRun' = IF raises THEN "none"
                 ELSE IF last_run_time <= current_time THEN "sane" ELSE "skewed"
    /\ pc' = IF raises THEN "crashed" ELSE "done"
    /\ UNCHANGED <<feedContent, current_time, last_run_time, last_item_ids, fetched,
                   all_items, filtered_new_items, new_item_ids, attempted, written,
                   startFile, rerun>>

\* The process is killed from outside while it writes: before or between
\* the writes of the sinks, before or during the save of the run state, or
\* (inWrite) inside the next write of a sink, whose file is then opened and
\* cut but not written.
Kill(inWrite) ==
    /\ pc \in {"files", "save", "dump"}
    /\ inWrite => pc = "files"
    /\ attempted' =
           IF inWrite
           THEN LET planned == PlannedSinks(filtered_new_items, all_items)
                IN  attempted \cup {planned[Cardinality(attempted) + 1]}
           ELSE attempted
    /\ pc' = "killed"
    /\ UNCHANGED <<feedContent, stateFile, current_time, last_run_time, last_item_ids,
                   fetched, all_items, filtered_new_items, new_item_ids, written,
                   startFile, prevRun, rerun>>

\* The process has ended; the next call of main is in a new process.
Schedule ==
    /\ pc \in {"done", "crashed", "killed"}
    /\ pc' = "idle"
    /\ current_time' = NoneTime
    /\ last_run_time' = NoneTime
    /\ last_item_ids' = <<>>
    /\ fetched' = [f \in Feeds |-> OkFeed(<<>>)]
    /\ all_items' = <<>>
    /\ filtered_new_items' = <<>>
    /\ new_item_ids' = <<>>
    /\ attempted' = {}
    /\ written' = {}
    /\ startFile' = AbsentFile
    /\ rerun' = "none"
    /\ UNCHANGED <<feedContent, stateFile, prevRun>>

\* Between two runs a feed publishes one more entry.
FeedPublishes(f, entry) ==
    /\ pc = "idle"
    /\ ~feedContent[f].error
    /\ TotalEntries(feedContent) < MaxItems
    /\ feedContent' = [feedContent EXCEPT ![f].entries = Append(@, entry)]
    /\ prevRun' = "none"
    /\ UNCHANGED <<stateFile, pc, current_time, last_run_time, last_item_ids, fetched,
                   all_items, filtered_new_items, new_item_ids, attempted, written,
                   startFile, rerun>>

Next ==
    \/ \E now \in Times : Main(now)
    \/ \E raises \in BOOLEAN : WriteSink(raises)
    \/ \E raises \in BOOLEAN : SaveOpen(raises)
    \/ \E raises \in BOOLEAN : SaveDump(raises)
    \/ \E inWrite \in BOOLEAN : Kill(inWrite)
    \/ Schedule
    \/ \E entry \in WellFormed : FeedPublishes(FeedList[1], entry)

\* The feed-processing phase of one run.
NextFetch == \E now \in Times : Main(now)

Spec == Init /\ [][Next]_vars

SpecFetch == InitFetch /\ [][NextFetch]_vars

SpecOrder == InitOrder /\ [][NextFetch]_vars

SpecBulk == InitBulk /\ [][NextFetch]_vars

(***************************************************************************)
(* Properties.                                                             *)
(***************************************************************************)
\* The run has computed its item lists (main is past line 270).
Filtered == pc # "idle"

\* What load_last_run_info returned to this run.
Loaded == LoadLastRunInfo(startFile)

Count(s, x) == Cardinality({i \in 1..Len(s) : s[i] = x})

\* An item is new by date and by id for this run.
IsNewByDate(item) == item.pub_date # NoneTime /\ item.pub_date > last_run_time
IsUnseen(item) == \A k \in 1..Len(Loaded.last_item_ids) : Loaded.last_item_ids[k] # item.item_id
IsNew(item) == IsNewByDate(item) /\ IsUnseen(item)

\* C1 as stated: when a run has completed and the next run loads the state it
\* saved and fetches the same feed contents, that run finds no new item.
C1_IdempotenceAnyState == (Filtered /\ rerun # "none") => filtered_new_items = <<>>

\* C1 as amended: the same, for a first run whose cutoff was not later than
\* its own current time.
C1_IdempotenceSaneClock == (Filtered /\ rerun = "sane") => filtered_new_items = <<>>

\* A second run over unchanged contents that holds an item published after
\* its cutoff, which only the id filter keeps out.
C1_Witness ==
    /\ pc = "files"
    /\ rerun = "sane"
    /\ \E i \in 1..Len(all_items) : IsNewByDate(all_items[i])

\* C2 as stated: a completed run has dispatched exactly the fetched items
\* whose id is not in the loaded list, and has persisted the loaded ids
\* followed by the ids it dispatched.
C2_DispatchesAllUnseen ==
    pc = "done" =>
        /\ filtered_new_items = SelectSeq(all_items, IsUnseen)
        /\ stateFile.last_item_ids = Loaded.last_item_ids \o ItemIds(filtered_new_items)

\* C2 as amended: a completed run has dispatched exactly the fetched items
\* whose id is not in the loaded list and whose publication time is after
\* the cutoff; every file sink it had to write is written; the state it has
\* persisted is its current time with the loaded ids followed by the ids it
\* dispatched.
C2_DispatchesNewAndPersists ==
    pc = "done" =>
        /\ filtered_new_items = SelectSeq(all_items, IsNew)
        /\ written = Range(PlannedSinks(filtered_new_items, all_items))
        /\ stateFile = SavedFile(current_time,
                                 Loaded.last_item_ids \o ItemIds(filtered_new_items))

\* A completed run that found one id already persisted, dispatched only the
\* other item, and persisted both ids.
C2_Witness ==
    /\ pc = "done"
    /\ Len(all_items) = 2
    /\ Len(Loaded.last_item_ids) = 1
    /\ Len(filtered_new_items) = 1
    /\ \E i \in 1..2 : all_items[i].item_id = Loaded.last_item_ids[1]
    /\ Len(stateFile.last_item_ids) = 2
    /\ stateFile.last_item_ids[2] = filtered_new_items[1].item_id

\* C3: the new-item list is exactly the fetched items published strictly
\* after the cutoff whose id is not in the loaded list, in their order; no
\* item published at the cutoff or without a date is in it; the loaded list
\* is as it was loaded.
C3_FilterResult ==
    Filtered =>
        /\ filtered_new_items = SelectSeq(all_items, IsNew)
        /\ \A i \in 1..Len(filtered_new_items) :
               /\ filtered_new_items[i].pub_date # NoneTime
               /\ filtered_new_items[i].pub_date # last_run_time
        /\ last_item_ids = Loaded.last_item_ids

\* A run with a loaded id, an item published at the cutoff and a new item.
C3_Witness ==
    /\ pc = "files"
    /\ last_item_ids # <<>>
    /\ filtered_new_items # <<>>
    /\ \E i \in 1..Len(all_items) : all_items[i].pub_date = last_run_time

\* C8: a run that found the state file absent or unparseable loaded no
\* timestamp and no id, went on with the cutoff at its current time minus a
\* day, and took every fetched item published after that cutoff as new.
C8_LoadFallback ==
    (Filtered /\ startFile.kind \in {"absent", "corrupt"}) =>
        /\ Loaded = [last_run |-> NoneTime, last_item_ids |-> <<>>]
        /\ last_item_ids = <<>>
        /\ last_run_time = current_time - Day
        /\ filtered_new_items = SelectSeq(all_items, IsNewByDate)

\* A run over an unparseable state file with a new item and an older one.
C8_Witness ==
    /\ pc = "files"
    /\ startFile.kind = "corrupt"
    /\ filtered_new_items # <<>>
    /\ \E i \in 1..Len(all_items) :
           all_items[i].pub_date # NoneTime /\ all_items[i].pub_date <= last_run_time

\* C7 as stated: once save_items_to_files is over, every file sink it had
\* to write has had its write attempted, whichever writes failed; when a
\* write has failed the run has gone on to save_last_run_info all the same.
C7_SinksIsolated ==
    pc \in {"crashed", "save", "dump", "done"} =>
        /\ attempted = Range(PlannedSinks(filtered_new_items, all_items))
        /\ (pc = "crashed" => written = attempted)

\* C9 as stated: whenever a reader loads the state file during or after a
\* run, it gets what the run itself loaded at its start or the state the
\* run saves.
C9_AtomicSave ==
    Filtered =>
        LoadLastRunInfo(stateFile) \in
            {Loaded, [last_run |-> current_time, last_item_ids |-> new_item_ids]}

\* The items of all_items that come from feed f.
ItemsFrom(f) == LET Test(item) == item.source = f IN SelectSeq(all_items, Test)

\* The items the entries of feed f stand for.
ItemsOf(f) == [i \in 1..Len(fetched[f].entries) |-> RSSItem(fetched[f].entries[i], f)]

\* The items of s published at t (NoneTime: without date), in their order.
PublishedAt(s, t) == LET Test(item) == item.pub_date = t IN SelectSeq(s, Test)

\* The items of s that sort by key k, in their order.
SortedAt(s, k) ==
    LET Test(item) == (IF item.pub_date = NoneTime THEN DatetimeMin ELSE item.pub_date) = k
    IN  SelectSeq(s, Test)

\* s is ordered newest first, the items without date last.
NewestFirst(s) ==
    \A i, j \in 1..Len(s) :
        i < j => \/ s[j].pub_date = NoneTime
                 \/ (s[i].pub_date # NoneTime /\ s[i].pub_date >= s[j].pub_date)

\* s is ordered newest first, the items without date behind every item
\* dated later than datetime.min.
NewestFirstAboveMin(s) ==
    \A i, j \in 1..Len(s) :
        i < j => \/ s[j].pub_date = NoneTime
                 \/ (s[i].pub_date # NoneTime /\ s[i].pub_date >= s[j].pub_date)
                 \/ (s[i].pub_date = NoneTime /\ s[j].pub_date = DatetimeMin)

\* C4 as stated: all_items and the new-item list are ordered by publication
\* time descending with every item without date behind all the dated ones,
\* and the items of one publication time (or without date) stand in the order
\* the feeds gave them: feed list order, then document order.
C4_Ordering ==
    Filtered =>
        /\ NewestFirst(all_items)
        /\ NewestFirst(filtered_new_items)
        /\ \A t \in PubTimes \cup {NoneTime} :
               /\ PublishedAt(all_items, t) = PublishedAt(AppendAllFeeds(fetched), t)
               /\ PublishedAt(filtered_new_items, t)
                      = SelectSeq(PublishedAt(AppendAllFeeds(fetched), t), IsNew)

\* C4 as amended: all_items is ordered by publication time descending with
\* every item without date behind all the items dated later than datetime.min;
\* the items dated datetime.min and the items without date stand together, in
\* the order the feeds gave them, and so do the items of any one publication
\* time; the new-item list holds dated items only, newest first, those of one
\* publication time in the order the feeds gave them.
C4_OrderingAboveMin ==
    Filtered =>
        LET given == AppendAllFeeds(fetched)
        IN  /\ NewestFirstAboveMin(all_items)
            /\ \A k \in PubTimes : SortedAt(all_items, k) = SortedAt(given, k)
            /\ NewestFirst(filtered_new_items)
            /\ \A i \in 1..Len(filtered_new_items) :
                   filtered_new_items[i].pub_date # NoneTime
            /\ \A t \in PubTimes :
                   PublishedAt(filtered_new_items, t)
                       = SelectSeq(PublishedAt(given, t), IsNew)

\* A run that loaded an id and found a new item, whose all_items holds an
\* item without date ahead of an item dated datetime.min, as the feeds gave
\* them.
C4_Witness ==
    /\ pc = "files"
    /\ last_item_ids # <<>>
    /\ filtered_new_items # <<>>
    /\ \E i, j \in 1..Len(all_items) :
           /\ i < j
           /\ all_items[i].pub_date = NoneTime
           /\ all_items[j].pub_date = DatetimeMin
           /\ all_items[i].source < all_items[j].source

\* C5: whichever feeds raise, the run goes on, and every entry of every feed
\* that does not raise has its item in all_items, and in the new-item list
\* when it is new, as many times as the feed holds it.
C5_FeedIsolation ==
    Filtered =>
        \A f \in Feeds :
            ~FeedFails(fetched[f]) =>
                /\ Len(ItemsFrom(f)) = Len(fetched[f].entries)
                /\ \A i \in 1..Len(ItemsOf(f)) :
                       /\ Count(all_items, ItemsOf(f)[i]) = Count(ItemsOf(f), ItemsOf(f)[i])
                       /\ IsNew(ItemsOf(f)[i]) =>
                              Count(filtered_new_items, ItemsOf(f)[i])
                                  = Count(ItemsOf(f), ItemsOf(f)[i])

\* A run in which the first feed raised and the second feed has a new item.
C5_Witness ==
    /\ pc = "files"
    /\ FeedFails(fetched[FeedList[1]])
    /\ ~FeedFails(fetched[FeedList[2]])
    /\ \E i \in 1..Len(filtered_new_items) : filtered_new_items[i].source = FeedList[2]

\* C6 as stated: every entry of a parsed feed that has its title and its
\* link yields an item, whatever entries stand before it.
C6_EntryIsolation ==
    Filtered =>
        \A f \in Feeds :
            ~fetched[f].error =>
                Len(ItemsFrom(f)) >=
                    Cardinality({i \in 1..Len(fetched[f].entries) :
                                    ~EntryRaises(fetched[f].entries[i])})

\* C10 as stated: a run takes at most 10 items from one feed.
C10_BoundedExtraction == Filtered => \A f \in Feeds : Len(ItemsFrom(f)) <= 10

====
